---- MODULE Spec2Model ----
(***************************************************************************)
(* The statement executor of the shell (src/lib/shell/flow.rs): the        *)
(* recursive walk of execute_statement / execute_statements / execute_if / *)
(* execute_for / execute_while / execute_match and on_command, unfolded    *)
(* into an explicit call stack.  One action is one straight-line segment   *)
(* of a function between two calls; a call pushes a frame, a return pops   *)
(* it and leaves the returned Condition in ret.  Signals are delivered     *)
(* asynchronously and observed only where the code calls next_signal().    *)
(***************************************************************************)
EXTENDS Integers, Sequences, FiniteSets, TLC

VARIABLES
    stack,            \* call stack of the executor, innermost call last
    ret,              \* Condition returned by the call that returned last
    previous_status,  \* Shell::previous_status
    flags,            \* TRUE iff the ERR_EXIT bit of Shell::flags is set
    break_flow,       \* Shell::break_flow
    scopes,           \* Shell::variables: stack of scopes, innermost last
    pending,          \* signals recorded by the handler, not yet taken
    exit,             \* whether Shell::exit was called, with which status
    flow_control,     \* Shell::flow_control: statements buffered by the builder
    out,              \* the last line Time wrote to standard output
    survived,         \* history: where a failed pipeline was passed under errexit
    probe,            \* history: the signal check made last, what it found and did
    last              \* history: the call that returned last, as it returned

vars == <<stack, ret, previous_status, flags, break_flow, scopes, pending,
          exit, flow_control, out, survived, probe, last>>

----------------------------------------------------------------------------
(* Bounds of the inputs *)

\* the largest exit status a pipeline is let to end with
MaxStatus == 2
\* the exclusive end of the ranges `for` iterates over
MaxRange == 2

----------------------------------------------------------------------------
(* Values *)

SUCCESS == 0
FAILURE == 1

None == <<>>
Some(v) == <<v>>

Str(s) == [type |-> "Str", val |-> s]
Array(a) == [type |-> "Array", val |-> a]
FunctionValue(name, ss) == [type |-> "Function", val |-> name, statements |-> ss]

Digit(d) ==
    CASE d = 0 -> "0" [] d = 1 -> "1" [] d = 2 -> "2" [] d = 3 -> "3"
      [] d = 4 -> "4" [] d = 5 -> "5" [] d = 6 -> "6" [] d = 7 -> "7"
      [] d = 8 -> "8" [] d = 9 -> "9"

RECURSIVE Decimal(_)
Decimal(n) == IF n < 10 THEN Digit(n) ELSE Decimal(n \div 10) \o Digit(n % 10)

\* i32 / u64 Display: an optional minus sign, then the decimal digits
to_string(n) == IF n < 0 THEN "-" \o Decimal(0 - n) ELSE Decimal(n)

RECURSIVE Digits(_)
Digits(n) == IF n < 10 THEN 1 ELSE 1 + Digits(n \div 10)

RECURSIVE Zeros(_)
Zeros(k) == IF k <= 0 THEN "" ELSE "0" \o Zeros(k - 1)

\* {:0w}: the decimal digits, left-padded with zeros to at least w characters
Padded(n, w) == Zeros(w - Digits(n)) \o Decimal(n)

RECURSIVE join(_, _)
join(a, sep) ==
    IF a = <<>> THEN ""
    ELSE IF Len(a) = 1 THEN a[1]
    ELSE a[1] \o sep \o join(Tail(a), sep)

\* str::lines over a text held as a sequence of characters
RECURSIVE lines(_)
lines(text) ==
    IF text = <<>> THEN <<>>
    ELSE LET nl == { k \in 1..Len(text) : text[k] = "\n" }
         IN IF nl = {} THEN <<join(text, "")>>
            ELSE LET k == CHOOSE x \in nl : \A y \in nl : x <= y
                 IN <<join(SubSeq(text, 1, k - 1), "")>>
                        \o lines(SubSeq(text, k + 1, Len(text)))

----------------------------------------------------------------------------
(* Statements (flow_control::Statement) *)

Error(n) == [tag |-> "Error", number |-> n]
Let(name, value, st) == [tag |-> "Let", name |-> name, value |-> value, status |-> st]
Export(name, value, st) == [tag |-> "Export", name |-> name, value |-> value, status |-> st]
Pipeline(p) == [tag |-> "Pipeline", pipeline |-> p]
While(e, ss) == [tag |-> "While", expression |-> e, statements |-> ss]
For(v, vals, ss) == [tag |-> "For", variable |-> v, values |-> vals, statements |-> ss]
If(e, s, ei, f) ==
    [tag |-> "If", expression |-> e, success |-> s, else_if |-> ei, failure |-> f]
ElseIf(e, s) == [expression |-> e, success |-> s]
Function(name, ss) == [tag |-> "Function", name |-> name, statements |-> ss]
Time(s) == [tag |-> "Time", statement |-> s]
And(s) == [tag |-> "And", statement |-> s]
Or(s) == [tag |-> "Or", statement |-> s]
Not(s) == [tag |-> "Not", statement |-> s]
Break == [tag |-> "Break"]
Continue == [tag |-> "Continue"]
Match(arr, val, cs) == [tag |-> "Match", is_array |-> arr, value |-> val, cases |-> cs]
Case(v, b, c, ss) == [value |-> v, binding |-> b, conditional |-> c, statements |-> ss]
Default == [tag |-> "Default"]

\* ForExpression, the three shapes ForExpression::new yields
Multiple(vals) == [shape |-> "Multiple", values |-> vals]
Normal(text) == [shape |-> "Normal", text |-> text]
Range(a, b) == [shape |-> "Range", start |-> a, end |-> b]

\* what insert_statement answers for one parsed statement of an input
OkSome(stm) == [r |-> "Some", stm |-> stm]
OkNone == [r |-> "None"]
Err == [r |-> "Err"]

----------------------------------------------------------------------------
(* The variable store *)

new_scope(scs) == Append(scs, <<>>)

pop_scope(scs) == SubSeq(scs, 1, Len(scs) - 1)

\* set: the innermost scope is written, an outer definition is shadowed
Set(scs, name, v) ==
    LET s == scs[Len(scs)]
    IN [scs EXCEPT ![Len(scs)] =
            [n \in DOMAIN s \cup {name} |-> IF n = name THEN v ELSE s[n]]]

\* lookup walks outward from the innermost scope
RECURSIVE Lookup(_, _)
Lookup(scs, name) ==
    IF scs = <<>> THEN None
    ELSE IF name \in DOMAIN scs[Len(scs)] THEN Some(scs[Len(scs)][name])
    ELSE Lookup(pop_scope(scs), name)

\* get::<T>: the value under the name when it has the type asked for
Get(scs, name, type) ==
    LET v == Lookup(scs, name)
    IN IF v # None /\ v[1].type = type THEN v ELSE None

----------------------------------------------------------------------------
(* Collaborators of the executor *)

\* the signals delivered to the shell here: one that interrupts, one that ends it
Signals == {"SIGINT", "SIGTERM"}

SignalNumber(sig) ==
    CASE sig = "SIGHUP" -> 1 [] sig = "SIGINT" -> 2 [] sig = "SIGTERM" -> 15

\* Shell::handle_signal: TRUE when the signal ends the shell
handle_signal(sig) == sig \in {"SIGHUP", "SIGTERM"}

get_signal_code(sig) == 128 + SignalNumber(sig)

\* The ways a pipeline can end: the status run_pipeline returns (None when
\* the pipeline could not be run) and whether job control latched
\* break_flow while the pipeline was in the foreground.
Outcome(res, brk) == [res |-> res, brk |-> brk]

Outcomes(p) ==
    CASE p = "true" -> {Outcome(Some(SUCCESS), FALSE)}
      [] p = "false" -> {Outcome(Some(FAILURE), FALSE)}
      [] p = "cmd" -> {Outcome(Some(s), FALSE) : s \in 0..MaxStatus}
                        \cup {Outcome(None, FALSE), Outcome(Some(MaxStatus), TRUE)}

\* ForExpression as the sequence of elements the loop visits
ForElements(e) ==
    CASE e.shape = "Multiple" -> e.values
      [] e.shape = "Normal" -> lines(e.text)
      [] e.shape = "Range" ->
            [k \in 1..(IF e.end > e.start THEN e.end - e.start ELSE 0)
                |-> to_string(e.start + k - 1)]

\* the line Time prints for an elapsed Duration
TimeUsesMinutes(seconds) == seconds > 60

TimeLine(seconds, nanoseconds) ==
    IF TimeUsesMinutes(seconds)
    THEN [form |-> "minutes",
          text |-> "real    " \o to_string(seconds \div 60) \o "m"
                     \o Padded(seconds % 60, 2) \o "." \o Padded(nanoseconds, 9) \o "s"]
    ELSE [form |-> "seconds",
          text |-> "real    " \o to_string(seconds) \o "."
                     \o Padded(nanoseconds, 9) \o "s"]

Elapsed == {<<0, 0>>, <<59, 999999999>>, <<60, 0>>, <<61, 5>>, <<125, 1000>>}

----------------------------------------------------------------------------
(* Frames of the call stack.  d0 is the depth of the scope stack at the    *)
(* call; saw records that a callee returned SigInt to this call.           *)

StatementFrame(stm) ==
    [fn |-> "execute_statement", pc |-> "start", stm |-> stm,
     d0 |-> Len(scopes), saw |-> FALSE, got |-> "none", entered |-> FALSE,
     inner |-> {}, before |-> None,
     status0 |-> previous_status, scopes0 |-> scopes]

StatementsFrame(ss) ==
    [fn |-> "execute_statements", pc |-> "entry", statements |-> ss, i |-> 1,
     condition |-> None, d0 |-> Len(scopes), saw |-> FALSE]

IfFrame(stm) ==
    [fn |-> "execute_if", pc |-> "loop",
     arms |-> <<ElseIf(stm.expression, stm.success)>> \o stm.else_if,
     failure |-> stm.failure, i |-> 1, d0 |-> Len(scopes), saw |-> FALSE,
     evaluated |-> <<>>, bodies |-> <<>>, results |-> <<>>]

WhileFrame(stm) ==
    [fn |-> "execute_while", pc |-> "cond", expression |-> stm.expression,
     statements |-> stm.statements, d0 |-> Len(scopes), saw |-> FALSE,
     heard |-> {}, asked |-> FALSE, res |-> None]

ForFrame(stm) ==
    [fn |-> "execute_for", pc |-> "loop", variable |-> stm.variable,
     shape |-> stm.values.shape, elements |-> ForElements(stm.values),
     statements |-> stm.statements, k |-> 1, d0 |-> Len(scopes),
     saw |-> FALSE, heard |-> {}, values |-> stm.values, runs |-> 0]

MatchFrame(stm) ==
    [fn |-> "execute_match", pc |-> "loop", is_array |-> stm.is_array,
     value |-> stm.value, cases |-> stm.cases, i |-> 1, condition |-> "NoOp",
     previous_bind |-> None, d0 |-> Len(scopes), saw |-> FALSE,
     scopes0 |-> scopes, tried |-> <<>>, ran |-> <<>>, bound |-> {},
     guards |-> {}]

CommandFrame(items) ==
    [fn |-> "on_command", pc |-> "entry", items |-> items, i |-> 1,
     d0 |-> Len(scopes), saw |-> FALSE, dispatched |-> <<>>, failed |-> FALSE,
     found |-> None]

NoFrame == [fn |-> "none", pc |-> "none", saw |-> FALSE, d0 |-> 0]

----------------------------------------------------------------------------
(* Stack plumbing *)

Top == stack[Len(stack)]

Running == ~exit.done /\ stack # <<>>

At(fn, pc) == Running /\ Top.fn = fn /\ Top.pc = pc

AtStatement(tag) == At("execute_statement", "start") /\ Top.stm.tag = tag

Heard(f) == [f EXCEPT !.saw = @ \/ ret = "SigInt"]

\* a loop's frame, with the condition its body returned noted
HeardBody(f) == [Heard(f) EXCEPT !.heard = @ \cup {ret}]

\* the running call goes on as frame f
Goto(f) == stack' = [stack EXCEPT ![Len(stack)] = f]

\* the running call, now frame f, calls: frame g is pushed
Call(f, g) == stack' = Append([stack EXCEPT ![Len(stack)] = f], g)

\* the running call returns cond; f is its frame as it returns
Return(f, cond) ==
    /\ stack' = SubSeq(stack, 1, Len(stack) - 1)
    /\ ret' = cond
    /\ last' = [frame |-> f, cond |-> cond, depth |-> Len(scopes'),
                status |-> previous_status', scopes |-> scopes',
                break_flow |-> break_flow', flow_control |-> flow_control',
                below |-> IF Len(stack) > 1 THEN stack[Len(stack) - 1].fn ELSE "none"]

\* Shell::exit: the process ends here
Exit(code, cause) ==
    /\ exit' = [done |-> TRUE, code |-> code, cause |-> cause]
    /\ UNCHANGED <<stack, ret, last>>

----------------------------------------------------------------------------
(* on_command *)

\* a faulty variant: the latch is left as it was found
EntryLatch_Kept(latch) == latch

\* `self.break_flow = false;`
EntryLatch(latch) == FALSE

\* on_command: the latch is cleared before the input is split
OnCommandEnter ==
    /\ At("on_command", "entry")
    /\ break_flow' = EntryLatch(break_flow)
    /\ Goto([Top EXCEPT !.pc = "loop"])
    /\ UNCHANGED <<ret, last, previous_status, flags, scopes, pending, exit,
                   flow_control, out, survived, probe>>

\* a faulty variant: the builder keeps what it had buffered
reset_Kept(buffered) == buffered

\* `self.flow_control.reset()`
reset(buffered) == 0

\* on_command: the next statement of the input goes through insert_statement
OnCommandNext ==
    /\ At("on_command", "loop")
    /\ UNCHANGED <<previous_status, flags, break_flow, scopes, pending, exit,
                   out, survived, probe>>
    /\ IF Top.i > Len(Top.items)
       THEN /\ UNCHANGED flow_control
            /\ Return(Top, "void")
       ELSE LET item == Top.items[Top.i]
            IN CASE item.r = "Err" ->
                      /\ flow_control' = reset(flow_control)
                      /\ Return([Top EXCEPT !.failed = TRUE,
                                            !.found = Some([status |-> previous_status,
                                                            scopes |-> scopes,
                                                            flow_control |-> flow_control])],
                                "void")
                 [] item.r = "Some" ->
                      /\ flow_control' = 0
                      /\ Call([Top EXCEPT !.pc = "wait",
                                          !.dispatched = Append(@, Top.i)],
                              StatementFrame(item.stm))
                      /\ UNCHANGED <<ret, last>>
                 [] item.r = "None" ->
                      /\ flow_control' = flow_control + 1
                      /\ Goto([Top EXCEPT !.i = @ + 1])
                      /\ UNCHANGED <<ret, last>>

\* a faulty variant: a condition returned at top level ends the input
CommandStops_OnCondition(cond) == cond \in {"Break", "Continue", "SigInt"}

\* `let _ = self.execute_statement(stm)`: no returned condition ends the input
CommandStops(cond) == FALSE

OnCommandReturned ==
    /\ At("on_command", "wait")
    /\ UNCHANGED <<previous_status, flags, break_flow, scopes, pending, exit,
                   flow_control, out, survived, probe>>
    /\ IF CommandStops(ret)
       THEN Return(Heard(Top), "void")
       ELSE /\ Goto([Heard(Top) EXCEPT !.pc = "loop", !.i = @ + 1])
            /\ UNCHANGED <<ret, last>>

----------------------------------------------------------------------------
(* execute_statement *)

\* a faulty variant: the status is not written to `?`
MirrorStatus_Skipped(scs, status) == scs

\* `self.variables.set("?", self.previous_status.to_string())`
MirrorStatus(scs, status) == Set(scs, "?", Str(to_string(status)))

\* the effect of local(action) / export(action) on the variables
Assign(scs, action) ==
    IF action.status = SUCCESS THEN Set(scs, action.name, Str(action.value)) ELSE scs

\* run_pipeline ending as outcome o
RunPipeline(o) ==
    /\ previous_status' = IF o.res = None THEN previous_status ELSE o.res[1]
    /\ scopes' = IF o.res = None THEN scopes ELSE MirrorStatus(scopes, o.res[1])
    /\ break_flow' = (break_flow \/ o.brk)

\* `if let Condition::SigInt = self.execute_while(..) { return Condition::SigInt }`
LoopPropagates(cond) == cond = "SigInt"

\* a faulty variant: only SigInt is passed on, as after a loop
CompoundPropagates_SigIntOnly(cond) == cond = "SigInt"

\* `match condition { Break => return Break, Continue => return Continue,
\*                    NoOp => (), SigInt => return SigInt }`
CompoundPropagates(cond) == cond \in {"Break", "Continue", "SigInt"}

\* a faulty variant: the flag is not tested
ErrExit_IgnoresFlag(errexit, status) == status # SUCCESS

\* a faulty variant: only the status FAILURE exits
ErrExit_OnlyFailure(errexit, status) == errexit /\ status = FAILURE

\* `self.flags & ERR_EXIT != 0 && self.previous_status != SUCCESS`
ErrExit(errexit, status) == errexit /\ status # SUCCESS

\* the match of Statement::Not on previous_status
\* a faulty variant: every status other than 0 becomes 0
Negated_Truthy(status) == IF status = SUCCESS THEN FAILURE ELSE SUCCESS

\* `match self.previous_status { FAILURE => SUCCESS, SUCCESS => FAILURE, _ => () }`
Negated(status) ==
    CASE status = FAILURE -> SUCCESS
      [] status = SUCCESS -> FAILURE
      [] OTHER -> status

\* whether the pipeline statement on top is the condition of an If
PipelineContext ==
    IF /\ Len(stack) >= 3
       /\ stack[Len(stack) - 1].fn = "execute_statements"
       /\ stack[Len(stack) - 2].fn = "execute_if"
       /\ stack[Len(stack) - 2].pc = "cond"
    THEN "if" ELSE "statement"

ToProbe(f) == Goto([f EXCEPT !.pc = "probe"])

StatementError ==
    /\ AtStatement("Error")
    /\ previous_status' = Top.stm.number
    /\ ToProbe(Top)
    /\ UNCHANGED <<ret, last, flags, break_flow, scopes, pending, exit,
                   flow_control, out, survived, probe>>

StatementLet ==
    /\ AtStatement("Let")
    /\ previous_status' = Top.stm.status
    /\ scopes' = MirrorStatus(Assign(scopes, Top.stm), previous_status')
    /\ ToProbe(Top)
    /\ UNCHANGED <<ret, last, flags, break_flow, pending, exit, flow_control,
                   out, survived, probe>>

StatementExport ==
    /\ AtStatement("Export")
    /\ previous_status' = Top.stm.status
    /\ scopes' = MirrorStatus(Assign(scopes, Top.stm), previous_status')
    /\ ToProbe(Top)
    /\ UNCHANGED <<ret, last, flags, break_flow, pending, exit, flow_control,
                   out, survived, probe>>

StatementWhile ==
    /\ AtStatement("While")
    /\ Call([Top EXCEPT !.pc = "loop_ret"], WhileFrame(Top.stm))
    /\ UNCHANGED <<ret, last, previous_status, flags, break_flow, scopes,
                   pending, exit, flow_control, out, survived, probe>>

StatementFor ==
    /\ AtStatement("For")
    /\ Call([Top EXCEPT !.pc = "loop_ret"], ForFrame(Top.stm))
    /\ UNCHANGED <<ret, last, previous_status, flags, break_flow, scopes,
                   pending, exit, flow_control, out, survived, probe>>

\* back from execute_while / execute_for
StatementLoopReturned ==
    /\ At("execute_statement", "loop_ret")
    /\ UNCHANGED <<previous_status, flags, break_flow, scopes, pending, exit,
                   flow_control, out, survived, probe>>
    /\ LET f == [Heard(Top) EXCEPT !.got = ret, !.inner = last.frame.heard]
       IN IF LoopPropagates(ret)
          THEN Return(f, ret)
          ELSE ToProbe(f) /\ UNCHANGED <<ret, last>>

StatementIf ==
    /\ AtStatement("If")
    /\ Call([Top EXCEPT !.pc = "cond_ret"], IfFrame(Top.stm))
    /\ UNCHANGED <<ret, last, previous_status, flags, break_flow, scopes,
                   pending, exit, flow_control, out, survived, probe>>

StatementMatch ==
    /\ AtStatement("Match")
    /\ Call([Top EXCEPT !.pc = "cond_ret"], MatchFrame(Top.stm))
    /\ UNCHANGED <<ret, last, previous_status, flags, break_flow, scopes,
                   pending, exit, flow_control, out, survived, probe>>

\* back from execute_if / execute_match / the statement under And / Or
StatementCompoundReturned ==
    /\ At("execute_statement", "cond_ret")
    /\ UNCHANGED <<previous_status, flags, break_flow, scopes, pending, exit,
                   flow_control, out, survived, probe>>
    /\ LET f == [Heard(Top) EXCEPT !.got = ret]
       IN IF CompoundPropagates(ret)
          THEN Return(f, ret)
          ELSE ToProbe(f) /\ UNCHANGED <<ret, last>>

StatementFunction ==
    /\ AtStatement("Function")
    /\ scopes' = Set(scopes, Top.stm.name,
                     FunctionValue(Top.stm.name, Top.stm.statements))
    /\ ToProbe(Top)
    /\ UNCHANGED <<ret, last, previous_status, flags, break_flow, pending,
                   exit, flow_control, out, survived, probe>>

StatementPipeline ==
    /\ AtStatement("Pipeline")
    /\ \E o \in Outcomes(Top.stm.pipeline) : RunPipeline(o)
    /\ Goto([Top EXCEPT !.pc = "ran"])
    /\ UNCHANGED <<ret, last, flags, pending, exit, flow_control, out, survived, probe>>

\* the errexit test after the pipeline of a Pipeline statement
StatementErrExit ==
    /\ At("execute_statement", "ran")
    /\ UNCHANGED <<previous_status, flags, break_flow, scopes, pending,
                   flow_control, out>>
    /\ IF ErrExit(flags, previous_status)
       THEN Exit(previous_status, "errexit") /\ UNCHANGED <<survived, probe>>
       ELSE /\ ToProbe(Top)
            /\ survived' = survived \cup
                 (IF flags /\ previous_status # 0 THEN {PipelineContext} ELSE {})
            /\ UNCHANGED <<ret, last, exit, probe>>

StatementTime ==
    /\ AtStatement("Time")
    /\ Call([Top EXCEPT !.pc = "timed"], StatementFrame(Top.stm.statement))
    /\ UNCHANGED <<ret, last, previous_status, flags, break_flow, scopes,
                   pending, exit, flow_control, out, survived, probe>>

\* Time, after the timed statement: the line is written, the condition passed on
StatementTimed ==
    /\ At("execute_statement", "timed")
    /\ \E e \in Elapsed :
         out' = [form |-> TimeLine(e[1], e[2]).form,
                 text |-> TimeLine(e[1], e[2]).text,
                 seconds |-> e[1], nanoseconds |-> e[2]]
    /\ UNCHANGED <<previous_status, flags, break_flow, scopes, pending, exit,
                   flow_control, survived, probe>>
    /\ LET f == [Heard(Top) EXCEPT !.got = ret]
       IN IF CompoundPropagates(ret)
          THEN Return(f, ret)
          ELSE ToProbe(f) /\ UNCHANGED <<ret, last>>

\* `SUCCESS => { ... self.execute_statement(*box_statement) ... }`
AndRuns(status) == status = SUCCESS

\* a faulty variant: Or runs its statement after any status other than 0
OrRuns_NonZero(status) == status # SUCCESS

\* `FAILURE => { ... self.execute_statement(*box_statement) ... }`
OrRuns(status) == status = FAILURE

StatementAnd ==
    /\ AtStatement("And")
    /\ IF AndRuns(previous_status)
       THEN Call([Top EXCEPT !.pc = "cond_ret", !.entered = TRUE],
                 StatementFrame(Top.stm.statement))
       ELSE ToProbe(Top)
    /\ UNCHANGED <<ret, last, previous_status, flags, break_flow, scopes,
                   pending, exit, flow_control, out, survived, probe>>

StatementOr ==
    /\ AtStatement("Or")
    /\ IF OrRuns(previous_status)
       THEN Call([Top EXCEPT !.pc = "cond_ret", !.entered = TRUE],
                 StatementFrame(Top.stm.statement))
       ELSE ToProbe(Top)
    /\ UNCHANGED <<ret, last, previous_status, flags, break_flow, scopes,
                   pending, exit, flow_control, out, survived, probe>>

StatementNot ==
    /\ AtStatement("Not")
    /\ Call([Top EXCEPT !.pc = "negate"], StatementFrame(Top.stm.statement))
    /\ UNCHANGED <<ret, last, previous_status, flags, break_flow, scopes,
                   pending, exit, flow_control, out, survived, probe>>

\* Not, after its statement: the returned condition is dropped, 0 and 1 swap
StatementNegate ==
    /\ At("execute_statement", "negate")
    /\ previous_status' = Negated(previous_status)
    /\ scopes' = MirrorStatus(scopes, previous_status')
    /\ ToProbe([Heard(Top) EXCEPT !.got = ret, !.before = Some(previous_status)])
    /\ UNCHANGED <<ret, last, flags, break_flow, pending, exit, flow_control,
                   out, survived, probe>>

StatementBreak ==
    /\ AtStatement("Break")
    /\ UNCHANGED <<previous_status, flags, break_flow, scopes, pending, exit,
                   flow_control, out, survived, probe>>
    /\ Return(Top, "Break")

StatementContinue ==
    /\ AtStatement("Continue")
    /\ UNCHANGED <<previous_status, flags, break_flow, scopes, pending, exit,
                   flow_control, out, survived, probe>>
    /\ Return(Top, "Continue")

\* `_ => {}`: the statements execute_statement has no arm for
StatementOther ==
    /\ AtStatement("Default")
    /\ ToProbe(Top)
    /\ UNCHANGED <<ret, last, previous_status, flags, break_flow, scopes,
                   pending, exit, flow_control, out, survived, probe>>

\* a faulty variant: the latch is looked at before the pending signals
ProbeBranch_LatchFirst(signals, latch) ==
    IF latch THEN "latch" ELSE IF signals # {} THEN "signal" ELSE "none"

\* which branch of the check is taken: `if let Some(signal) = next_signal()`,
\* `else if self.break_flow`, `else`
ProbeBranch(signals, latch) ==
    IF signals # {} THEN "signal" ELSE IF latch THEN "latch" ELSE "none"

\* what the check found and did
Probed(taken, latch, outcome) ==
    [done |-> TRUE, pending |-> pending, break_flow |-> break_flow,
     taken |-> taken, left |-> pending', latch |-> latch, outcome |-> outcome]

\* the signal check that ends execute_statement
StatementProbe ==
    /\ At("execute_statement", "probe")
    /\ UNCHANGED <<previous_status, flags, scopes, flow_control, out, survived>>
    /\ CASE ProbeBranch(pending, break_flow) = "signal" ->
              \E signal \in pending :
                /\ pending' = pending \ {signal}
                /\ UNCHANGED break_flow
                /\ IF handle_signal(signal)
                   THEN /\ Exit(get_signal_code(signal), "signal")
                        /\ probe' = Probed(Some(signal), break_flow, "exit")
                   ELSE /\ Return(Top, "SigInt")
                        /\ probe' = Probed(Some(signal), break_flow, "SigInt")
                        /\ UNCHANGED exit
         [] ProbeBranch(pending, break_flow) = "latch" ->
              /\ break_flow' = FALSE
              /\ UNCHANGED <<pending, exit>>
              /\ Return(Top, "SigInt")
              /\ probe' = Probed(None, FALSE, "SigInt")
         [] ProbeBranch(pending, break_flow) = "none" ->
              /\ UNCHANGED <<break_flow, pending, exit>>
              /\ Return(Top, "NoOp")
              /\ probe' = Probed(None, break_flow, "NoOp")

----------------------------------------------------------------------------
(* execute_statements *)

\* a faulty variant: only Break and Continue end the block
BlockStops_OnLoopControl(cond) == cond \in {"Break", "Continue"}

\* which returned conditions end the block
BlockStops(cond) == cond # "NoOp"

StatementsEnter ==
    /\ At("execute_statements", "entry")
    /\ scopes' = new_scope(scopes)
    /\ Goto([Top EXCEPT !.pc = "loop"])
    /\ UNCHANGED <<ret, last, previous_status, flags, break_flow, pending,
                   exit, flow_control, out, survived, probe>>

StatementsNext ==
    /\ At("execute_statements", "loop")
    /\ IF Top.i <= Len(Top.statements)
       THEN Call([Top EXCEPT !.pc = "wait"], StatementFrame(Top.statements[Top.i]))
       ELSE Goto([Top EXCEPT !.pc = "exit"])
    /\ UNCHANGED <<ret, last, previous_status, flags, break_flow, scopes,
                   pending, exit, flow_control, out, survived, probe>>

StatementsReturned ==
    /\ At("execute_statements", "wait")
    /\ IF BlockStops(ret)
       THEN Goto([Heard(Top) EXCEPT !.pc = "exit", !.condition = Some(ret)])
       ELSE Goto([Heard(Top) EXCEPT !.pc = "loop", !.i = @ + 1])
    /\ UNCHANGED <<ret, last, previous_status, flags, break_flow, scopes,
                   pending, exit, flow_control, out, survived, probe>>

\* a faulty variant: an interrupted block returns before its scope is popped
ScopesAtExit_Leak(scs, condition) ==
    IF condition = Some("SigInt") THEN scs ELSE pop_scope(scs)

\* the scopes the block leaves behind: `self.variables.pop_scope()` is
\* reached whatever ended the loop over the statements
ScopesAtExit(scs, condition) == pop_scope(scs)

StatementsExit ==
    /\ At("execute_statements", "exit")
    /\ scopes' = ScopesAtExit(scopes, Top.condition)
    /\ UNCHANGED <<previous_status, flags, break_flow, pending, exit,
                   flow_control, out, survived, probe>>
    /\ Return(Top, IF Top.condition = None THEN "NoOp" ELSE Top.condition[1])

----------------------------------------------------------------------------
(* execute_if *)

\* `self.previous_status == 0` after an arm's condition
\* a faulty variant: the first arm is taken whatever its condition left
IfTaken_Always(status) == TRUE

\* `if self.previous_status == 0`
IfTaken(status) == status = 0

IfNext ==
    /\ At("execute_if", "loop")
    /\ IF Top.i <= Len(Top.arms)
       THEN Call([Top EXCEPT !.pc = "cond", !.evaluated = Append(@, Top.i)],
                 StatementsFrame(<<Top.arms[Top.i].expression>>))
       ELSE Call([Top EXCEPT !.pc = "body", !.bodies = Append(@, 0)],
                 StatementsFrame(Top.failure))
    /\ UNCHANGED <<ret, last, previous_status, flags, break_flow, scopes,
                   pending, exit, flow_control, out, survived, probe>>

IfCondition ==
    /\ At("execute_if", "cond")
    /\ UNCHANGED <<previous_status, flags, break_flow, scopes, pending, exit,
                   flow_control, out, survived, probe>>
    /\ LET f == [Heard(Top) EXCEPT !.results =
                    Append(@, [cond |-> ret, status |-> previous_status])]
       IN IF ret = "SigInt"
          THEN Return(f, "SigInt")
          ELSE /\ UNCHANGED <<ret, last>>
               /\ IF IfTaken(previous_status)
                  THEN Call([f EXCEPT !.pc = "body", !.bodies = Append(@, Top.i)],
                            StatementsFrame(Top.arms[Top.i].success))
                  ELSE Goto([f EXCEPT !.pc = "loop", !.i = @ + 1])

IfBody ==
    /\ At("execute_if", "body")
    /\ UNCHANGED <<previous_status, flags, break_flow, scopes, pending, exit,
                   flow_control, out, survived, probe>>
    /\ Return(Heard(Top), ret)

----------------------------------------------------------------------------
(* execute_while and execute_for *)

\* a faulty variant: Continue ends the loop as Break does
LoopAfter_ContinueBreaks(cond) ==
    CASE cond \in {"Break", "Continue"} -> "break"
      [] cond = "SigInt" -> "return"
      [] OTHER -> "next"

\* what a loop does with the condition its body returned
LoopAfter(cond) ==
    CASE cond = "Break" -> "break"
      [] cond = "SigInt" -> "return"
      [] OTHER -> "next"

\* `self.run_pipeline(&mut expression.clone()) == Some(SUCCESS)`
WhileGoesOn(res) == res = Some(SUCCESS)

WhileCondition ==
    /\ At("execute_while", "cond")
    /\ UNCHANGED <<flags, pending, exit, flow_control, out>>
    /\ \E o \in Outcomes(Top.expression) :
         /\ RunPipeline(o)
         /\ IF WhileGoesOn(o.res)
            THEN /\ Call([Top EXCEPT !.pc = "body", !.asked = TRUE, !.res = o.res],
                         StatementsFrame(Top.statements))
                 /\ UNCHANGED <<ret, last, survived, probe>>
            ELSE /\ survived' = survived \cup
                      (IF flags /\ o.res # None /\ o.res # Some(SUCCESS)
                       THEN {"while"} ELSE {})
                 /\ UNCHANGED probe
                 /\ Return([Top EXCEPT !.asked = TRUE, !.res = o.res], "NoOp")

WhileBody ==
    /\ At("execute_while", "body")
    /\ UNCHANGED <<previous_status, flags, break_flow, scopes, pending, exit,
                   flow_control, out, survived, probe>>
    /\ LET after == LoopAfter(ret)
       IN CASE after = "break" -> Return(HeardBody(Top), "NoOp")
            [] after = "return" -> Return(HeardBody(Top), "SigInt")
            [] after = "next" ->
                 /\ Goto([HeardBody(Top) EXCEPT !.pc = "cond"])
                 /\ UNCHANGED <<ret, last>>

\* a faulty variant: `_` is bound like any other name
ignore_variable_Never(variable) == FALSE

\* `let ignore_variable = variable == "_"`
ignore_variable(variable) == variable = "_"

ForNext ==
    /\ At("execute_for", "loop")
    /\ UNCHANGED <<previous_status, flags, break_flow, pending, exit,
                   flow_control, out, survived, probe>>
    /\ IF Top.k <= Len(Top.elements)
       THEN /\ scopes' = IF ignore_variable(Top.variable) THEN scopes
                         ELSE Set(scopes, Top.variable, Str(Top.elements[Top.k]))
            /\ Call([Top EXCEPT !.pc = "body", !.runs = @ + 1],
                    StatementsFrame(Top.statements))
            /\ UNCHANGED <<ret, last>>
       ELSE /\ UNCHANGED scopes
            /\ Return(Top, "NoOp")

ForBody ==
    /\ At("execute_for", "body")
    /\ UNCHANGED <<previous_status, flags, break_flow, scopes, pending, exit,
                   flow_control, out, survived, probe>>
    /\ LET after == LoopAfter(ret)
       IN CASE after = "break" -> Return(HeardBody(Top), "NoOp")
            [] after = "return" -> Return(HeardBody(Top), "SigInt")
            [] after = "next" ->
                 /\ Goto([HeardBody(Top) EXCEPT !.pc = "loop", !.k = @ + 1])
                 /\ UNCHANGED <<ret, last>>

----------------------------------------------------------------------------
(* execute_match *)

matches(lhs, rhs) ==
    \E k \in 1..Len(lhs) : \E j \in 1..Len(rhs) : rhs[j] = lhs[k]

\* whether the case is selected for the subject: no pattern, or an overlap
CaseHits(case, value) == case.value = None \/ matches(case.value[1], value)

\* the value saved before the binding is written
PreviousBind(scs, case, is_array) ==
    IF case.binding = None THEN None
    ELSE IF is_array THEN Get(scs, case.binding[1], "Array")
    ELSE Get(scs, case.binding[1], "Str")

\* the binding of the subject to the case's name
Bind(scs, case, is_array, value) ==
    IF case.binding = None THEN scs
    ELSE IF is_array THEN Set(scs, case.binding[1], Array(value))
    ELSE Set(scs, case.binding[1], Str(join(value, " ")))

\* after the body: the saved value is written back
Restore(scs, case, previous_bind) ==
    IF case.binding # None /\ previous_bind # None
    THEN Set(scs, case.binding[1], previous_bind[1])
    ELSE scs

\* `if self.previous_status != SUCCESS { continue; }` after the guard
GuardFails(status) == status # SUCCESS

\* a faulty variant: the loop over the cases goes on after a body
AfterBody_Continue(i, n) == i + 1

\* what follows a case whose body has run: `break`
AfterBody(i, n) == n + 1

MatchNext ==
    /\ At("execute_match", "loop")
    /\ UNCHANGED <<previous_status, flags, break_flow, pending, exit,
                   flow_control, out, survived, probe>>
    /\ IF Top.i > Len(Top.cases)
       THEN /\ UNCHANGED scopes
            /\ Return(Top, Top.condition)
       ELSE LET case == Top.cases[Top.i]
                f == [Top EXCEPT !.tried = Append(@, Top.i)]
            IN IF CaseHits(case, Top.value)
               THEN LET g == [f EXCEPT
                                !.previous_bind = PreviousBind(scopes, case, Top.is_array),
                                !.bound = IF case.binding = None THEN @
                                          ELSE @ \cup {case.binding[1]}]
                    IN /\ scopes' = Bind(scopes, case, Top.is_array, Top.value)
                       /\ UNCHANGED <<ret, last>>
                       /\ IF case.conditional # None
                          THEN Call([g EXCEPT !.pc = "guard"],
                                    CommandFrame(case.conditional[1]))
                          ELSE Call([g EXCEPT !.pc = "body", !.ran = Append(@, Top.i)],
                                    StatementsFrame(case.statements))
               ELSE /\ Goto([f EXCEPT !.i = @ + 1])
                    /\ UNCHANGED <<ret, last, scopes>>

\* back from on_command(&statement), the guard of the case
MatchGuard ==
    /\ At("execute_match", "guard")
    /\ LET f == [Top EXCEPT !.saw = @ \/ last.frame.saw,
                             !.guards = @ \cup {<<Top.i, previous_status>>}]
       IN IF GuardFails(previous_status)
          THEN Goto([f EXCEPT !.pc = "loop", !.i = @ + 1])
          ELSE Call([f EXCEPT !.pc = "body", !.ran = Append(@, Top.i)],
                    StatementsFrame(Top.cases[Top.i].statements))
    /\ UNCHANGED <<ret, last, previous_status, flags, break_flow, scopes,
                   pending, exit, flow_control, out, survived, probe>>

\* back from the body of the case: restore the binding, then `break`
MatchBody ==
    /\ At("execute_match", "body")
    /\ scopes' = Restore(scopes, Top.cases[Top.i], Top.previous_bind)
    /\ UNCHANGED <<ret, last, previous_status, flags, break_flow, pending,
                   exit, flow_control, out, survived, probe>>
    /\ Goto([Heard(Top) EXCEPT !.pc = "loop", !.condition = ret,
                               !.i = AfterBody(Top.i, Len(Top.cases))])

----------------------------------------------------------------------------
(* Signals *)

\* a signal arrives: the handler records it as pending
Deliver ==
    /\ Running
    /\ \E signal \in Signals \ pending : pending' = pending \cup {signal}
    /\ UNCHANGED <<stack, ret, last, previous_status, flags, break_flow,
                   scopes, exit, flow_control, out, survived, probe>>

----------------------------------------------------------------------------
(* Inputs *)

Sibling == Pipeline("true")

Leaves == {Pipeline("cmd"), Break, Continue}

Wrappers == {"while", "for", "range", "if", "then", "else", "match", "guard",
             "time", "and", "not"}

\* statement s put inside one compound form, with a sibling after it
Wrap(w, s) ==
    CASE w = "while" -> While("cmd", <<s, Sibling>>)
      [] w = "for" -> For("i", Multiple(<<"a", "b">>), <<s, Sibling>>)
      [] w = "range" -> For("_", Range(0, MaxRange), <<s, Sibling>>)
      [] w = "if" -> If(s, <<Sibling>>, <<>>, <<Sibling>>)
      [] w = "then" -> If(Pipeline("true"), <<s, Sibling>>, <<>>, <<>>)
      [] w = "else" -> If(Error(1), <<>>, <<ElseIf(Error(2), <<>>)>>, <<s, Sibling>>)
      [] w = "match" ->
            Match(FALSE, <<"a">>,
                  <<Case(Some(<<"b">>), None, None, <<>>),
                    Case(Some(<<"c", "a">>), None, None, <<s, Sibling>>),
                    Case(None, None, None, <<Sibling>>)>>)
      [] w = "guard" ->
            Match(TRUE, <<"a", "b">>,
                  <<Case(Some(<<"b">>), Some("x"), Some(<<OkSome(s)>>), <<Sibling>>),
                    Case(None, None, None, <<Sibling>>)>>)
      [] w = "time" -> Time(s)
      [] w = "and" -> And(s)
      [] w = "not" -> Not(s)

Nested ==
    { <<OkSome(Wrap(a, Wrap(b, s))), OkSome(Sibling)>> :
        a \in Wrappers, b \in Wrappers, s \in Leaves }

Body == <<Pipeline("cmd")>>

Curated == {
    <<OkSome(Pipeline("cmd")), OkSome(Break), OkSome(Error(127)),
      OkSome(Continue), OkSome(Pipeline("true"))>>,
    <<OkSome(Error(-1)), OkSome(Or(Pipeline("cmd"))), OkSome(Or(Break)),
      OkSome(Error(1)), OkSome(Or(Not(Pipeline("false"))))>>,
    <<OkSome(While("cmd", <<Pipeline("cmd"), Break>>))>>,
    <<OkSome(Pipeline("cmd")), OkSome(Wrap("guard", Pipeline("cmd")))>>,
    <<OkSome(For("_", Multiple(<<"a", "b">>), <<Continue>>)),
      OkSome(While("false", <<>>)),
      OkSome(If(Pipeline("false"), <<>>, <<>>, <<Sibling>>))>>,
    <<OkSome(For("i", Range(0, MaxRange), <<Not(Pipeline("cmd")), Continue>>))>>,
    <<OkSome(For("_", Normal(<<"a", "\n", "b">>), <<Time(Pipeline("true"))>>)),
      OkNone, Err, OkSome(Pipeline("true"))>>,
    <<OkSome(Let("x", "old", 0)), OkSome(Export("y", "v", 1)),
      OkSome(Function("f", Body)), OkSome(Default),
      OkSome(If(Pipeline("cmd"), <<Pipeline("cmd")>>,
                <<ElseIf(Pipeline("cmd"), <<Break>>)>>, <<Continue>>)),
      OkSome(And(Pipeline("true"))), OkSome(Or(Pipeline("false")))>>,
    <<OkSome(Let("x", "old", 0)),
      OkSome(Match(FALSE, <<"a">>,
         <<Case(Some(<<"b">>), None, None, Body),
           Case(Some(<<"a", "c">>), Some("x"), Some(<<OkSome(Pipeline("cmd"))>>), Body),
           Case(None, Some("x"), None, <<Let("x", "new", 0), Break>>)>>))>>,
    <<OkSome(Let("x", "old", 0)),
      OkSome(Match(TRUE, <<"a", "b">>,
         <<Case(Some(<<"b">>), Some("x"), None, <<Not(Let("z", "v", 1))>>),
           Case(None, None, None, Body)>>)),
      OkSome(Match(TRUE, <<"a", "b">>,
         <<Case(None, Some("x"), Some(<<OkSome(Let("x", "g", 0))>>), Body)>>))>>
}

Inputs == Curated \cup Nested

\* the shell as on_command is called with one of the inputs
Start(inputs) ==
    /\ previous_status = 0
    /\ flags \in BOOLEAN
    /\ break_flow = FALSE
    /\ scopes = << <<>> >>
    /\ pending = {}
    /\ exit = [done |-> FALSE, code |-> 0, cause |-> "none"]
    /\ flow_control = 0
    /\ out = [form |-> "none", text |-> "", seconds |-> 0, nanoseconds |-> 0]
    /\ survived = {}
    /\ probe = [done |-> FALSE]
    /\ ret = "none"
    /\ last = [frame |-> NoFrame, cond |-> "none", depth |-> 1, status |-> 0,
               scopes |-> << <<>> >>, break_flow |-> FALSE, flow_control |-> 0,
               below |-> "none"]
    /\ \E input \in inputs : stack = <<CommandFrame(input)>>

Init == Start(Inputs)

Next ==
    \/ OnCommandEnter \/ OnCommandNext \/ OnCommandReturned
    \/ StatementError \/ StatementLet \/ StatementExport
    \/ StatementWhile \/ StatementFor \/ StatementLoopReturned
    \/ StatementIf \/ StatementMatch \/ StatementCompoundReturned
    \/ StatementFunction \/ StatementPipeline \/ StatementErrExit
    \/ StatementTime \/ StatementTimed
    \/ StatementAnd \/ StatementOr \/ StatementNot \/ StatementNegate
    \/ StatementBreak \/ StatementContinue \/ StatementOther
    \/ StatementProbe
    \/ StatementsEnter \/ StatementsNext \/ StatementsReturned \/ StatementsExit
    \/ IfNext \/ IfCondition \/ IfBody
    \/ WhileCondition \/ WhileBody
    \/ ForNext \/ ForBody
    \/ MatchNext \/ MatchGuard \/ MatchBody
    \/ Deliver

Spec == Init /\ [][Next]_vars

----------------------------------------------------------------------------
(* While loops on their own: the inputs are one While statement each, over  *)
(* every kind of body, and the executor is taken to keep running.           *)

LoopBodies == {<<>>, <<Continue>>, <<Break>>, <<Pipeline("cmd")>>,
               <<Pipeline("cmd"), Continue>>, <<Pipeline("true"), Break>>}

LoopInputs ==
    { <<OkSome(While(e, b)), OkSome(Sibling)>> :
        e \in {"true", "cmd"}, b \in LoopBodies }

LoopInit == Start(LoopInputs)

\* the steps the executor takes on these inputs
Executes ==
    \/ OnCommandEnter \/ OnCommandNext \/ OnCommandReturned
    \/ StatementWhile \/ StatementLoopReturned
    \/ StatementPipeline \/ StatementErrExit
    \/ StatementBreak \/ StatementContinue
    \/ StatementProbe
    \/ StatementsEnter \/ StatementsNext \/ StatementsReturned \/ StatementsExit
    \/ WhileCondition \/ WhileBody

LoopNext ==
    \/ OnCommandEnter \/ OnCommandNext \/ OnCommandReturned
    \/ StatementWhile \/ StatementLoopReturned
    \/ StatementPipeline \/ StatementErrExit
    \/ StatementBreak \/ StatementContinue
    \/ StatementProbe
    \/ StatementsEnter \/ StatementsNext \/ StatementsReturned \/ StatementsExit
    \/ WhileCondition \/ WhileBody
    \/ Deliver

\* the shell is a sequential program that is never descheduled for good:
\* while a step of the executor is possible, one is taken; signals arrive
\* or not as the environment pleases.
LoopSpec == LoopInit /\ [][LoopNext]_vars /\ WF_vars(Executes)

----------------------------------------------------------------------------
(* Properties *)

Executors == {"execute_statements", "execute_statement", "execute_if",
              "execute_while", "execute_for", "execute_match"}

Loops == {"execute_while", "execute_for"}

Returned(fn) == last.frame.fn = fn

\* the variable `?` as the call that returned last left it
QuestionMark == Lookup(last.scopes, "?")

\* C1 (scope balance): every call of execute_statements, execute_statement,
\* execute_if, execute_while, execute_for or execute_match that returns
\* leaves the scope stack at the depth it had when the call started,
\* whatever condition it returns.
C1_ScopeBalance ==
    last.frame.fn \in Executors => last.depth = last.frame.d0

\* C1 witness: a block nested in other blocks has returned SigInt.
C1_Witness ==
    /\ Returned("execute_statements")
    /\ last.cond = "SigInt"
    /\ last.frame.d0 >= 2
    /\ last.depth = last.frame.d0

\* C2 (SigInt is never dropped): an executor to which a nested call
\* returned SigInt (for execute_match, also through the guard command)
\* returns SigInt itself.
C2_SigIntNeverDropped ==
    (last.frame.fn \in Executors /\ last.frame.saw) => last.cond = "SigInt"

\* C3 (SigInt stops siblings and iterations): a block to which a statement
\* returned SigInt executes no later statement, it is only seen leaving;
\* a loop whose body returned SigInt has returned with it: no condition is
\* evaluated, no element bound and no iteration run afterwards.
C3_SigIntStops ==
    \A k \in 1..Len(stack) :
        LET f == stack[k]
        IN /\ (f.fn = "execute_statements" /\ f.saw) => f.pc = "exit"
           /\ f.fn \in Loops => ~f.saw

\* C3 witness: inside a loop, a block is left on SigInt with statements of
\* it still to come.
C3_Witness ==
    \E k \in 2..Len(stack) :
        /\ stack[k].fn = "execute_statements"
        /\ stack[k].saw
        /\ stack[k].pc = "exit"
        /\ stack[k].i < Len(stack[k].statements)
        /\ stack[k - 1].fn \in Loops

\* C4 as the claim states it: the execute_statement call of a While, For
\* or Match statement never returns Break or Continue.
C4_ContainedByLoopsAndMatch ==
    (Returned("execute_statement") /\ last.frame.stm.tag \in {"While", "For", "Match"})
        => last.cond \notin {"Break", "Continue"}

\* C4 as amended: the execute_statement call of a While or For statement
\* never returns Break or Continue; that of a Match statement returns the
\* Break or Continue execute_match returned, which so reaches the nearest
\* enclosing loop.
C4_ContainedByLoops ==
    Returned("execute_statement") =>
        /\ last.frame.stm.tag \in {"While", "For"} => last.cond \in {"NoOp", "SigInt"}
        /\ (last.frame.stm.tag = "Match" /\ last.frame.got \in {"Break", "Continue"})
              => last.cond = last.frame.got

\* C4 witness: a While statement whose body returned Break has returned.
C4_Witness ==
    /\ Returned("execute_statement")
    /\ last.frame.stm.tag = "While"
    /\ "Break" \in last.frame.inner
    /\ last.cond = "NoOp"

\* the indexes of the statements of an input insert_statement completes,
\* among the first n, in order
RECURSIVE Completed(_, _)
Completed(items, n) ==
    IF n = 0 THEN <<>>
    ELSE IF items[n].r = "Some" THEN Append(Completed(items, n - 1), n)
    ELSE Completed(items, n - 1)

\* C5 (top-level absorption): a Break or Continue statement leaves
\* last_status, the variables and the scope depth as they were; on_command
\* goes on with the statements after it, dispatching every completed
\* statement in order, and returns only at the end of the input or on an
\* insert_statement error.
C5_TopLevelAbsorption ==
    /\ (Returned("execute_statement") /\ last.frame.stm.tag \in {"Break", "Continue"})
          => /\ last.status = last.frame.status0
             /\ last.scopes = last.frame.scopes0
    /\ \A k \in 1..Len(stack) :
          LET f == stack[k]
          IN f.fn = "on_command" =>
                f.dispatched =
                    Completed(f.items, IF f.pc = "wait" THEN f.i
                                       ELSE IF f.pc = "entry" THEN 0 ELSE f.i - 1)
    /\ Returned("on_command") =>
          LET f == last.frame
          IN /\ f.dispatched = Completed(f.items, f.i - 1)
             /\ IF f.failed THEN f.items[f.i].r = "Err" ELSE f.i = Len(f.items) + 1

\* C5 witness: on_command has returned at the end of an input that has a
\* top-level Break with statements after it.
C5_Witness ==
    /\ Returned("on_command")
    /\ stack = <<>>
    /\ ~last.frame.failed
    /\ \E k \in 1..(Len(last.frame.items) - 1) :
          /\ last.frame.items[k] = OkSome(Break)
          /\ Len(last.frame.dispatched) > k

Mirrored == QuestionMark = Some(Str(to_string(last.status)))

\* C6 as the claim states it: after an Error(n), Let, Export or Not
\* statement that changed last_status, `?` is last_status in decimal.
C6_StatusMirrorWithError ==
    ( /\ Returned("execute_statement")
      /\ last.frame.stm.tag \in {"Error", "Let", "Export", "Not"}
      /\ last.status # last.frame.status0 ) => Mirrored

\* C6 as amended: after a Let, Export or Not statement, `?` is last_status
\* in decimal; Error(n) sets last_status and does not write `?`.
C6_StatusMirror ==
    Returned("execute_statement") =>
        /\ last.frame.stm.tag \in {"Let", "Export", "Not"} => Mirrored
        /\ last.frame.stm.tag = "Error" =>
              /\ last.status = last.frame.stm.number
              /\ last.scopes = last.frame.scopes0

\* C6 witness: a Not statement that changed last_status has returned.
C6_Witness ==
    /\ Returned("execute_statement")
    /\ last.frame.stm.tag = "Not"
    /\ last.status # last.frame.status0
    /\ Mirrored

\* C7 (match binding restoration): when execute_match returns, every name
\* it bound that had a value before holds that value, with its type, again.
C7_BindingRestored ==
    Returned("execute_match") =>
        \A b \in last.frame.bound :
            Lookup(last.frame.scopes0, b) # None
                => Lookup(last.scopes, b) = Lookup(last.frame.scopes0, b)

\* the guard of case i of the match was run and ended with a status other than 0
GuardFailed(f, i) == \E g \in f.guards : g[1] = i /\ g[2] # 0

Increasing(seq) == \A k \in 1..Len(seq) : seq[k] = k

\* C8 as the claim states it: at most one body runs, the cases are tried in
\* order, and a default case is selected only if no case before it matched
\* the subject.
C8_FirstHitByPattern ==
    \A f \in {stack[k] : k \in 1..Len(stack)} \cup {last.frame} :
        f.fn = "execute_match" =>
            /\ Len(f.ran) <= 1
            /\ Increasing(f.tried)
            /\ \A j \in 1..Len(f.tried) :
                  f.cases[j].value = None =>
                      \A i \in 1..(j - 1) : ~CaseHits(f.cases[i], f.value)

\* C8 as amended: at most one body runs, the cases are tried in order, and
\* a default case is selected only if every case before it that matched
\* the subject had a guard that failed.
C8_FirstHit ==
    \A f \in {stack[k] : k \in 1..Len(stack)} \cup {last.frame} :
        f.fn = "execute_match" =>
            /\ Len(f.ran) <= 1
            /\ Increasing(f.tried)
            /\ \A j \in 1..Len(f.tried) :
                  f.cases[j].value = None =>
                      \A i \in 1..(j - 1) :
                          CaseHits(f.cases[i], f.value) => GuardFailed(f, i)

\* C8 witness: a match has returned after the body of a default case ran,
\* a case before it having matched the subject and failed its guard.
C8_Witness ==
    /\ Returned("execute_match")
    /\ Len(last.frame.ran) = 1
    /\ last.frame.cases[last.frame.ran[1]].value = None
    /\ \E i \in 1..(last.frame.ran[1] - 1) :
          CaseHits(last.frame.cases[i], last.frame.value) /\ GuardFailed(last.frame, i)

\* C9 (errexit on Pipeline statements): the process exits on a pipeline
\* status only from a Pipeline statement, with errexit set, with the
\* non-zero last_status as exit status; and with errexit set no Pipeline
\* statement gets past a non-zero status to its signal check.
C9_ErrExitOnPipeline ==
    /\ exit.cause = "errexit" =>
          /\ flags
          /\ exit.code # 0
          /\ exit.code = previous_status
          /\ Top.fn = "execute_statement"
          /\ Top.stm.tag = "Pipeline"
          /\ Top.pc = "ran"
    /\ \A k \in 1..Len(stack) :
          (stack[k].fn = "execute_statement" /\ stack[k].stm.tag = "Pipeline"
              /\ stack[k].pc = "probe" /\ k = Len(stack))
            => ~(flags /\ previous_status # 0)

\* C9 witness: the process has exited with a pipeline's status larger than 1.
C9_Witness ==
    /\ exit.done
    /\ exit.cause = "errexit"
    /\ exit.code > 1
    /\ Len(stack) > 2

\* C10 as the claim states it: with errexit set, no pipeline that ended
\* with a non-zero status is passed without the process exiting.
C10_ErrExitEveryPipeline == survived = {}

\* C10 as amended: with errexit set, a pipeline that ends with a non-zero
\* status exits the process when it ran as a Pipeline statement, the
\* condition of an If included; the condition pipeline of a While loop
\* never exits the process, a status other than 0 only ends the loop.
C10_ErrExitStatementsOnly ==
    /\ survived \subseteq {"while"}
    /\ exit.cause = "errexit" => Top.fn # "execute_while"

\* C10 witness: a While loop was ended by its failing condition under
\* errexit, and later the failing condition of an If has exited the process.
C10_Witness ==
    /\ "while" \in survived
    /\ exit.cause = "errexit"
    /\ PipelineContext = "if"

\* C11 (order of the signal check): the check that ends a statement takes a
\* pending signal first: a terminal one ends the process with
\* get_signal_code(signal), any other makes the statement return SigInt and
\* leaves the latch alone; with no signal pending a set latch is cleared and
\* SigInt is returned; otherwise NoOp is returned.  The signal taken is no
\* longer pending after the check.
C11_ProbeOrder ==
    probe.done =>
      /\ probe.pending # {} =>
            /\ probe.taken # None
            /\ probe.taken[1] \in probe.pending
            /\ probe.left = probe.pending \ {probe.taken[1]}
            /\ probe.latch = probe.break_flow
            /\ probe.outcome =
                 IF probe.taken[1] \in {"SIGHUP", "SIGTERM"} THEN "exit" ELSE "SigInt"
      /\ probe.pending = {} =>
            /\ probe.taken = None
            /\ probe.left = {}
            /\ ~probe.latch
            /\ probe.outcome = IF probe.break_flow THEN "SigInt" ELSE "NoOp"
      /\ probe.outcome = "exit" =>
            /\ exit.done /\ exit.cause = "signal"
            /\ probe.taken = Some("SIGTERM") => exit.code = 143
            /\ probe.taken = Some("SIGHUP") => exit.code = 129
      /\ (probe.outcome # "exit" /\ Returned("execute_statement")
            /\ last.frame.pc = "probe") => last.cond = probe.outcome

\* a check found a signal pending and the latch set, and returned SigInt
C11_Witness ==
    /\ probe.done
    /\ probe.pending # {}
    /\ probe.break_flow
    /\ probe.outcome = "SigInt"
    /\ Returned("execute_statement") /\ last.frame.pc = "probe"

\* C12 (latch cleared): break_flow is false when on_command starts on its
\* input and false again whenever on_command returns, whatever pipelines
\* latched it and whatever signals were pending meanwhile.
C12_LatchNeverSurvives == Returned("on_command") => ~last.break_flow

\* What the code does keep of C12: break_flow is false when on_command starts
\* on its input, and a signal check that finds no signal pending leaves it
\* false; when on_command returns with the latch set, the last signal check
\* took a pending signal while the latch was set.
LatchClearedAtEntryAndByCheck ==
    /\ (stack # <<>> /\ Top.fn = "on_command" /\ Top.pc = "loop"
          /\ Top.dispatched = <<>>) => ~break_flow
    /\ (probe.done /\ probe.pending = {}) => ~probe.latch
    /\ (Returned("on_command") /\ last.break_flow) =>
          /\ probe.done
          /\ probe.taken # None
          /\ probe.break_flow


\* C13 (Not inverts only 0 and 1): when a Not statement finishes, last_status
\* is 1 if its statement left 0, 0 if it left 1, and what its statement left
\* for every other status; `?` holds the resulting status as a decimal string.
C13_NotInvertsZeroAndOne ==
    (Returned("execute_statement") /\ last.frame.stm.tag = "Not") =>
      /\ last.frame.before # None
      /\ last.frame.before = Some(0) => last.status = 1
      /\ last.frame.before = Some(1) => last.status = 0
      /\ last.frame.before \notin {Some(0), Some(1)} =>
            last.status = last.frame.before[1]
      /\ (last.status = 0 => QuestionMark = Some(Str("0")))
      /\ (last.status = 1 => QuestionMark = Some(Str("1")))
      /\ (last.status = 2 => QuestionMark = Some(Str("2")))
      /\ (last.status = 3 => QuestionMark = Some(Str("3")))
      /\ QuestionMark # None

\* a Not statement finished whose statement left a status other than 0 and 1
C13_Witness ==
    /\ Returned("execute_statement")
    /\ last.frame.stm.tag = "Not"
    /\ last.frame.before = Some(2)
    /\ last.status = 2

\* C14 (Or and And): Or(s) executes s exactly when last_status is 1 as the
\* Or statement starts, And(s) exactly when it is 0; when s is not executed
\* last_status is left as it was.
C14_OrOnlyOnOne ==
    /\ \A k \in DOMAIN stack :
         (stack[k].fn = "execute_statement" /\ stack[k].pc # "start") =>
            /\ stack[k].stm.tag = "Or" =>
                 (stack[k].entered <=> stack[k].status0 = 1)
            /\ stack[k].stm.tag = "And" =>
                 (stack[k].entered <=> stack[k].status0 = 0)
    /\ (Returned("execute_statement") /\ last.frame.stm.tag \in {"And", "Or"}) =>
         /\ last.frame.entered <=>
              last.frame.status0 = (IF last.frame.stm.tag = "Or" THEN 1 ELSE 0)
         /\ ~last.frame.entered => last.status = last.frame.status0

\* an Or statement that started with a status other than 0 and 1 finished
\* without executing its statement
C14_Witness ==
    /\ Returned("execute_statement")
    /\ last.frame.stm.tag = "Or"
    /\ last.frame.status0 \notin {0, 1}
    /\ ~last.frame.entered

\* the number of elements a ForExpression stands for
Count(values) ==
    CASE values.shape = "Multiple" -> Len(values.values)
      [] values.shape = "Range" ->
           IF values.end > values.start THEN values.end - values.start ELSE 0
      [] values.shape = "Normal" ->
           Cardinality({k \in DOMAIN values.text : values.text[k] = "\n"})
             + (IF values.text = <<>> \/ values.text[Len(values.text)] = "\n"
                THEN 0 ELSE 1)

Quiet(f) == f.heard \subseteq {"NoOp", "Continue"}

\* C15 (For with `_`): whatever the shape of the ForExpression (Multiple,
\* Normal, Range), a For over the variable `_` runs its body once per element
\* and the name `_` is never written.
C15_UnderscoreNeverBound ==
    /\ Lookup(scopes, "_") = None
    /\ (Returned("execute_for") /\ last.frame.variable = "_" /\ Quiet(last.frame)) =>
          /\ last.frame.runs = Count(last.frame.values)
          /\ last.cond = "NoOp"

\* a For over `_` and the lines of a string went through all its elements
C15_Witness ==
    /\ Returned("execute_for")
    /\ last.frame.variable = "_"
    /\ last.frame.shape = "Normal"
    /\ last.frame.runs = 2
    /\ Quiet(last.frame)

\* C16 (If chain): the conditions are evaluated in order; when none of them
\* returns SigInt exactly one body is executed, that of the first arm whose
\* condition leaves last_status 0, with no later condition evaluated, or the
\* else body when no arm did; when a condition returns SigInt no body runs,
\* no later condition is evaluated and execute_if returns SigInt.
C16_IfRunsOneBody ==
    Returned("execute_if") =>
      LET f == last.frame
          n == Len(f.results)
      IN /\ n >= 1
         /\ f.evaluated = [k \in 1..n |-> k]
         /\ \A k \in 1..(n - 1) :
              f.results[k].cond # "SigInt" /\ f.results[k].status # 0
         /\ IF f.results[n].cond = "SigInt"
            THEN f.bodies = <<>> /\ last.cond = "SigInt"
            ELSE IF f.results[n].status = 0
            THEN f.bodies = <<n>>
            ELSE n = Len(f.arms) /\ f.bodies = <<0>>

\* the body of an else-if arm ran after the first condition failed
C16_Witness ==
    /\ Returned("execute_if")
    /\ last.frame.bodies = <<2>>
    /\ last.frame.results[1].status # 0

\* C17 (Break and Continue in loops): in execute_while and every shape of
\* execute_for a body that returns Break ends the loop at once and the loop
\* returns NoOp; a body that returns Continue or NoOp is followed by the next
\* iteration; execute_while also ends with NoOp as soon as its condition
\* pipeline returns anything other than Some(0), None included.
C17_LoopControl ==
    /\ \A k \in DOMAIN stack :
         stack[k].fn \in Loops =>
           /\ Quiet(stack[k])
           /\ stack[k].fn = "execute_while" =>
                (stack[k].asked => stack[k].res = Some(0))
    /\ (Returned("execute_while") \/ Returned("execute_for")) =>
         /\ "Break" \in last.frame.heard => last.cond = "NoOp"
         /\ Quiet(last.frame) => last.cond = "NoOp"
    /\ (Returned("execute_for") /\ Quiet(last.frame)) =>
         last.frame.runs = Len(last.frame.elements)
    /\ (Returned("execute_while") /\ Quiet(last.frame)) =>
         /\ last.frame.asked
         /\ last.frame.res # Some(0)

\* a While loop ended with NoOp because its body returned Break
C17_Witness ==
    /\ Returned("execute_while")
    /\ "Break" \in last.frame.heard
    /\ last.cond = "NoOp"

\* C18 (Time output form): whatever the elapsed duration, Time(s) prints the
\* minutes form (whole minutes, seconds modulo 60 in two digits, nanoseconds
\* in nine digits) when the elapsed whole seconds are at least 60 and the
\* seconds-only form when they are below 60, and a Break, Continue or SigInt
\* that s returned is what Time(s) returns.
C18_TimeFormByThreshold ==
    /\ out.form # "none" =>
         /\ out.seconds >= 60 => out.form = "minutes"
         /\ out.seconds < 60 => out.form = "seconds"
         /\ (out.seconds = 59 /\ out.nanoseconds = 999999999) =>
              out.text = "real    59.999999999s"
         /\ (out.seconds = 60 /\ out.nanoseconds = 0) =>
              out.text = "real    1m00.000000000s"
         /\ (out.seconds = 61 /\ out.nanoseconds = 5) =>
              out.text = "real    1m01.000000005s"
         /\ (out.seconds = 125 /\ out.nanoseconds = 1000) =>
              out.text = "real    2m05.000001000s"
    /\ (Returned("execute_statement") /\ last.frame.stm.tag = "Time"
          /\ last.frame.got # "NoOp") => last.cond = last.frame.got

\* C19 (on_command error handling): when insert_statement returns an error
\* for a statement of the input, the flow builder is reset and on_command
\* returns there: no later statement of the input is given to the builder or
\* executed; the statements completed before the error were executed, and
\* the status and variables they left are kept.
C19_ErrorEndsInput ==
    (Returned("on_command") /\ last.frame.failed) =>
      LET f == last.frame
      IN /\ f.i \in DOMAIN f.items
         /\ f.items[f.i].r = "Err"
         /\ f.found # None
         /\ last.flow_control = 0
         /\ f.dispatched = Completed(f.items, f.i - 1)
         /\ last.status = f.found[1].status
         /\ last.scopes = f.found[1].scopes

\* an error came after a completed statement and a buffered one, with a
\* statement of the input still to come
C19_Witness ==
    /\ Returned("on_command")
    /\ last.frame.failed
    /\ last.frame.dispatched # <<>>
    /\ last.frame.i < Len(last.frame.items)
    /\ last.frame.found[1].flow_control > 0
    /\ stack = <<>>

InWhile == \E k \in DOMAIN stack : stack[k].fn = "execute_while"

\* C20 (an interrupt ends a loop): once a signal that does not end the
\* process is pending while execute_while runs, the loop eventually stops
\* iterating (or the process ends), whatever the body of the loop is, an
\* empty body and a body of only Continue included; the loop does not go on
\* for ever with the signal pending.
C20_InterruptEndsLoop ==
    (Running /\ InWhile /\ "SIGINT" \in pending) ~> (~InWhile \/ exit.done)
====
